---- MODULE Spec2Model ----
(***************************************************************************)
(* A model of v2/rolling_file_appender/rolling_file_appender.go: the       *)
(* bounded submission queue (appendCh), the writer goroutine               *)
(* (listenForAppends), the write path (reallyAppend), rotation (rotate,    *)
(* renameLogFile, logHeader) and the drain handshake (waitUntilEmpty,      *)
(* Close).                                                                 *)
(*                                                                         *)
(* Every method of RollingFileAppender is declared with a VALUE receiver   *)
(* (func (self RollingFileAppender) ...), so each call works on a copy of  *)
(* the struct: an assignment to self.file or self.curFileSize inside a     *)
(* method is not seen by its caller.  The methods are therefore operators  *)
(* from (self, world) to (self, world), and every call site decides with   *)
(* ValueReceiver which copy of self it goes on with.                       *)
(*                                                                         *)
(* Specifications: Spec (appendCh of capacity QueueCap, calls of Close one *)
(* after the other), FifoSpec (capacities QueueCap and QueueCap + 1),      *)
(* FairSpec (Spec with a fairly scheduled writer), ConcFairSpec (FairSpec  *)
(* with concurrent calls of Close) and ZeroFairSpec (an unbuffered         *)
(* appendCh).                                                              *)
(***************************************************************************)
EXTENDS Integers, Sequences, FiniteSets, TLC

\* ------------------------------------------------------------------ bounds
\* Records submitted in one behaviour (all producers together).
MaxRecords == 2
\* Capacity of appendCh in the model; the program's value is 4096.
QueueCap == 1
\* Calls of Close in one behaviour, one after the other.
MaxCloses == 2
\* Steps of one behaviour in which the environment makes I/O calls fail.
MaxFaultySteps == 1

\* maxFileSize given to New.
Thresholds == {0, 2}
\* Size of the file found by New.
InitSizes == {0, 1}
\* Byte length of the generated header: longer than every threshold.
HeaderLen == 1 + 2

Producers == {"p1", "p2"}
\* Byte length of a formatted record: p1 submits short records, p2 long ones.
RecLen(p) == IF p = "p1" THEN 1 ELSE 2
\* The calls of Close, numbered in the order they are made.
Closers == 1..MaxCloses
\* The second-resolution timestamps newRotatedFilename can produce.
Stamps == {"t1"}

NIL == 0

VARIABLES
    appender,    \* the struct New allocates: never written after construction
    lself,       \* the copy of the struct listenForAppends runs on
    needsSync,   \* listenForAppends' local
    lpc,         \* listenForAppends: "select" or "reply" (sending on syncReplyCh)
    replyTo,     \* the closer whose reply channel was received
    replyVal,    \* the value being sent on it
    appendCh,    \* the buffered channel
    newpc,       \* the thread in New: "header" (about to call logHeader) or "done"
    ppc,         \* producer in Append: "idle", "warn" (line 74), "log" (line 75)
    pcur,        \* the record a blocked producer is submitting
    nsub,        \* number of Append calls so far
    returned,    \* records whose Append has returned
    cpc,         \* closer: "idle", "sendSync", "recvReply", "close", "returned"
    cres,        \* what Close returned: "none", "ok", "err"
    snap,        \* per closer in Close: the records whose Append had returned at the call
    handles,     \* os.File objects: [inode, open, append, pos, closes]
    inodes,      \* file contents, a sequence of written items each
    synced,      \* per file, the contents that the last successful Sync made durable
    active,      \* inode at absPath, or NIL
    rotated,     \* inode at absPath.<stamp>, or NIL
    errors,      \* calls of errHandler, in order: [kind, th]
    trace,       \* what reallyAppend and rotate did, in order
    enq,         \* everything ever sent on appendCh, in order
    faults,      \* kinds of I/O failure the environment has produced so far
    nfs          \* number of steps in which it produced one

vars == <<appender, lself, needsSync, lpc, replyTo, replyVal, appendCh, newpc,
          ppc, pcur, nsub, returned, cpc, cres, snap, handles, inodes,
          synced, active, rotated, errors, trace, enq, faults, nfs>>

\* const APPEND_CHANNEL_SIZE, the capacity appendCh was made with (line 57),
\* scaled down to the model's capacities.
APPEND_CHANNEL_SIZE == appender.appendChCap

\* ------------------------------------------------------------------ values
NoItem == [kind |-> "none", p |-> "", k |-> 0, len |-> 0, ovf |-> FALSE]

Rec(p, k, n, ovf) == [kind |-> "rec", p |-> p, k |-> k, len |-> n, ovf |-> ovf]

\* fullWarningLog(): the warning an overflowing Append sends ahead of its record.
fullWarningLog(p, k) == [kind |-> "warn", p |-> p, k |-> k, len |-> 1, ovf |-> FALSE]

\* simpleLog("header", ...) of the generated header text.
HeaderLog(n) == [kind |-> "header", p |-> "", k |-> 0, len |-> n, ovf |-> FALSE]

\* What the file held before New opened it.
PreItem(n) == [kind |-> "pre", p |-> "", k |-> 0, len |-> n, ovf |-> FALSE]

\* The outcomes the environment picks for the I/O calls of one step.
\* Outcomes of calls that are not reached (after a failed write, after a failed
\* rename, ...) are fixed, so that every course of a step is drawn once.
IO == {io \in [wfail : BOOLEAN, hfail : BOOLEAN, cfail : BOOLEAN, rnfail : BOOLEAN,
              reopenfail : BOOLEAN, createfail : BOOLEAN, stamp : Stamps] :
         /\ io.wfail => ~io.cfail /\ ~io.rnfail
         /\ io.rnfail => ~io.createfail /\ io.stamp = "t1"
         /\ ~io.rnfail => ~io.reopenfail
         /\ (io.createfail \/ io.rnfail) => ~io.hfail}

World == [handles |-> handles, inodes |-> inodes, synced |-> synced, active |-> active,
          rotated |-> rotated, errors |-> errors, trace |-> trace,
          faults |-> faults, inj |-> FALSE]

SomeCloseReturned == \E c \in Closers : cpc[c] = "returned"

\* An error path that reports its failure twice.
errHandlerTwice(w, kind, th) ==
    [w EXCEPT !.errors = Append(Append(@, [kind |-> kind, th |-> th]),
                                [kind |-> kind, th |-> th])]

\* self.errHandler(err)
errHandler(w, kind, th) ==
    [w EXCEPT !.errors = Append(@, [kind |-> kind, th |-> th])]

Note(w, ev, item, out, th, h) ==
    [w EXCEPT !.trace = Append(@, [ev |-> ev, item |-> item, out |-> out, th |-> th,
                                   h |-> h, closed |-> SomeCloseReturned])]

Fault(w, kind) == [w EXCEPT !.faults = @ \cup {kind}, !.inj = TRUE]

\* The environment may make calls of this step fail.
MayFail == nfs < MaxFaultySteps

\* ------------------------------------------------------------ the os calls
NewHandle(ino, app) == [inode |-> ino, open |-> TRUE, append |-> app, pos |-> 0,
                        closes |-> 0]

\* A write without O_APPEND goes to the handle's offset and overwrites what is there.
WriteAt(content, pos, item) ==
    IF pos < Len(content) THEN [content EXCEPT ![pos + 1] = item]
    ELSE Append(content, item)

\* (*os.File).WriteString: fails on a closed file, or when the environment says so.
WriteString(w, h, item, fail) ==
    LET hd == w.handles[h] IN
    IF ~hd.open THEN [err |-> TRUE, w |-> w]
    ELSE IF fail /\ MayFail
    THEN [err |-> TRUE, w |-> Fault(w, IF item.kind = "header" THEN "hwrite" ELSE "write")]
    ELSE [err |-> FALSE,
          w |-> [w EXCEPT
                   !.inodes[hd.inode] = IF hd.append THEN Append(@, item)
                                        ELSE WriteAt(@, hd.pos, item),
                   !.handles[h].pos = IF hd.append THEN @ ELSE @ + 1]]

\* (*os.File).Close: a closed file reports an error and is left alone; an open
\* one is closed whether or not the close call reports an error.
FileClose(w, h, fail) ==
    LET hd == w.handles[h] IN
    IF ~hd.open THEN [err |-> TRUE, w |-> w]
    ELSE [err |-> fail /\ MayFail,
          w |-> LET w1 == [w EXCEPT !.handles[h].open = FALSE,
                                    !.handles[h].closes = @ + 1]
                IN IF fail /\ MayFail THEN Fault(w1, "close") ELSE w1]

\* (*os.File).Sync: fails on a nil or closed file, or when the environment says
\* so; otherwise what the file holds is durable.
FileSync(w, h, fail) ==
    IF h = NIL \/ ~w.handles[h].open THEN [err |-> TRUE, w |-> w]
    ELSE IF fail /\ MayFail THEN [err |-> TRUE, w |-> Fault(w, "sync")]
    ELSE [err |-> FALSE,
          w |-> [w EXCEPT !.synced[w.handles[h].inode] = w.inodes[w.handles[h].inode]]]

\* os.Rename(absPath, absPath.<stamp>): replaces whatever has that name.
Rename(w, stamp, fail) ==
    IF w.active = NIL THEN [err |-> TRUE, w |-> w]
    ELSE IF fail /\ MayFail THEN [err |-> TRUE, w |-> Fault(w, "rename")]
    ELSE [err |-> FALSE,
          w |-> [w EXCEPT !.rotated[stamp] = w.active, !.active = NIL]]

\* os.OpenFile(oldFilename, os.O_RDWR, 0666): no O_CREATE, no O_APPEND.
OpenFileRDWR(w, fail) ==
    IF w.active = NIL THEN [err |-> TRUE, h |-> NIL, w |-> w]
    ELSE IF fail /\ MayFail THEN [err |-> TRUE, h |-> NIL, w |-> Fault(w, "reopen")]
    ELSE [err |-> FALSE, h |-> Len(w.handles) + 1,
          w |-> [w EXCEPT !.handles = Append(@, NewHandle(w.active, FALSE))]]

\* os.Create(absPath): O_RDWR|O_CREATE|O_TRUNC.
Create(w, fail) ==
    IF fail /\ MayFail THEN [err |-> TRUE, h |-> NIL, w |-> Fault(w, "create")]
    ELSE IF w.active = NIL
    THEN [err |-> FALSE, h |-> Len(w.handles) + 1,
          w |-> [w EXCEPT !.inodes = Append(@, <<>>),
                          !.synced = Append(@, <<>>),
                          !.active = Len(w.inodes) + 1,
                          !.handles = Append(@, NewHandle(Len(w.inodes) + 1, FALSE))]]
    ELSE [err |-> FALSE, h |-> Len(w.handles) + 1,
          w |-> [w EXCEPT !.inodes[w.active] = <<>>,
                          !.handles = Append(@, NewHandle(w.active, FALSE))]]

\* ------------------------------------------------------------- the methods
\* A method declared on a pointer would hand its changes of self back.
PointerReceiver(callerSelf, calleeSelf) == calleeSelf

\* func (self RollingFileAppender): the callee works on a copy, the caller keeps its own.
ValueReceiver(callerSelf, calleeSelf) == callerSelf

RECURSIVE reallyAppend(_, _, _, _, _, _)

logHeader(self, w, th, io) ==
    IF self.headerGenerator # NIL
    THEN LET r == reallyAppend(self, w, HeaderLog(self.headerGenerator), FALSE, th, io)
         IN [self |-> ValueReceiver(self, r.self), w |-> r.w]
    ELSE [self |-> self, w |-> w]

\* returns ok = TRUE on success
renameLogFile(self, w, stamp, th, io) ==
    LET rn == Rename(w, stamp, io.rnfail) IN
    IF rn.err
    THEN LET w1 == errHandler(rn.w, "Rename", th)
             op == OpenFileRDWR(w1, io.reopenfail)
         IN IF ~op.err
            THEN [ok |-> FALSE, self |-> [self EXCEPT !.file = op.h],
                  w |-> Note(op.w, "rotate", NoItem, "reopened", th, op.h)]
            ELSE [ok |-> FALSE,
                  self |-> [self EXCEPT !.curFileSize = 0, !.file = NIL],
                  w |-> Note(errHandler(op.w, "Open", th), "rotate", NoItem, "nofile",
                             th, NIL)]
    ELSE [ok |-> TRUE, self |-> [self EXCEPT !.curFileSize = 0], w |-> rn.w]

rotate(self, w, th, io) ==
    LET cl == FileClose(w, self.file, io.cfail)
        w1 == IF cl.err THEN errHandler(cl.w, "Close", th) ELSE cl.w
        rn == renameLogFile(self, w1, io.stamp, th, io)
        s1 == ValueReceiver(self, rn.self)
    IN IF ~rn.ok THEN [self |-> s1, w |-> rn.w]
       ELSE LET cr == Create(rn.w, io.createfail) IN
            IF cr.err
            THEN [self |-> [s1 EXCEPT !.file = NIL],
                  w |-> Note(errHandler(cr.w, "Open", th), "rotate", NoItem,
                             "createfailed", th, NIL)]
            ELSE LET s2 == [s1 EXCEPT !.file = cr.h]
                     hd == logHeader(s2, Note(cr.w, "rotate", NoItem, "ok", th, cr.h),
                                     th, io)
                 IN [self |-> ValueReceiver(s2, hd.self), w |-> hd.w]

reallyAppend(self, w, log, trackSize, th, io) ==
    IF self.file = NIL
    THEN [self |-> self,
          w |-> errHandler(Note(w, "write", log, "nofile", th, NIL), "NoFile", th)]
    ELSE LET wr == WriteString(w, self.file, log,
                               IF log.kind = "header" THEN io.hfail ELSE io.wfail)
         IN IF wr.err
            THEN [self |-> self,
                  w |-> errHandler(Note(wr.w, "write", log, "writeerr", th, self.file),
                                   "Write", th)]
            ELSE LET w1 == Note(wr.w, "write", log, "written", th, self.file) IN
                 IF trackSize
                 THEN LET s1 == [self EXCEPT !.curFileSize = @ + log.len] IN
                      IF s1.curFileSize > s1.MaxFileSize
                      THEN LET r == rotate(s1, w1, th, io)
                           IN [self |-> ValueReceiver(s1, r.self), w |-> r.w]
                      ELSE [self |-> s1, w |-> w1]
                 ELSE [self |-> self, w |-> w1]

\* ------------------------------------------------------------------- state
Apply(w) ==
    /\ handles' = w.handles
    /\ inodes' = w.inodes
    /\ synced' = w.synced
    /\ active' = w.active
    /\ rotated' = w.rotated
    /\ errors' = w.errors
    /\ trace' = w.trace
    /\ faults' = w.faults
    /\ nfs' = IF w.inj THEN nfs + 1 ELSE nfs

fsVars == <<handles, inodes, synced, active, rotated, errors, trace, faults, nfs>>
listenerVars == <<lself, needsSync, lpc, replyTo, replyVal>>
producerVars == <<ppc, pcur, nsub, returned>>
closerVars == <<cpc, cres, snap>>

\* New, up to and including `go appender.listenForAppends()`: the file is open
\* in append mode, curFileSize is its size, the writer goroutine has its copy.
NewWith(capacities) ==
    /\ \E maxFileSize \in Thresholds, size \in InitSizes,
          header \in {NIL, HeaderLen}, capacity \in capacities :
          /\ appender = [MaxFileSize |-> maxFileSize, file |-> 1,
                         curFileSize |-> size, headerGenerator |-> header,
                         appendChCap |-> capacity]
          /\ inodes = << IF size = 0 THEN <<>> ELSE <<PreItem(size)>> >>
    /\ lself = appender
    /\ needsSync = FALSE
    /\ lpc = "select"
    /\ replyTo = NIL
    /\ replyVal = FALSE
    /\ appendCh = <<>>
    /\ newpc = "header"
    /\ ppc = [p \in Producers |-> "idle"]
    /\ pcur = [p \in Producers |-> NoItem]
    /\ nsub = 0
    /\ returned = {}
    /\ cpc = [c \in Closers |-> "idle"]
    /\ cres = [c \in Closers |-> "none"]
    /\ snap = [c \in Closers |-> {}]
    /\ synced = inodes
    /\ handles = <<NewHandle(1, TRUE)>>
    /\ active = 1
    /\ rotated = [t \in Stamps |-> NIL]
    /\ errors = <<>>
    /\ trace = <<>>
    /\ enq = <<>>
    /\ faults = {}
    /\ nfs = 0

Init == NewWith({QueueCap})

\* A New that returns without emitting the header.
NewWithoutHeader ==
    /\ newpc = "header"
    /\ newpc' = "done"
    /\ UNCHANGED <<appender, listenerVars, appendCh, producerVars, closerVars, enq,
                   fsVars>>

\* A New whose header write counts towards the threshold.
NewLogHeaderTracked ==
    /\ newpc = "header"
    /\ \E io \in IO :
          Apply((IF appender.headerGenerator # NIL
                 THEN reallyAppend(appender, World, HeaderLog(appender.headerGenerator),
                                   TRUE, "new", io)
                 ELSE [self |-> appender, w |-> World]).w)
    /\ newpc' = "done"
    /\ UNCHANGED <<appender, listenerVars, appendCh, producerVars, closerVars, enq>>

\* New, line 64: appender.logHeader() on the constructing thread.
NewLogHeader ==
    /\ newpc = "header"
    /\ \E io \in IO : Apply(logHeader(appender, World, "new", io).w)
    /\ newpc' = "done"
    /\ UNCHANGED <<appender, listenerVars, appendCh, producerVars, closerVars, enq>>

Send(item) ==
    /\ appendCh' = Append(appendCh, item)
    /\ enq' = Append(enq, item)

\* An Append that throws the record away when it finds the queue full.
AppendCallDropping(p) ==
    /\ newpc = "done"
    /\ ppc[p] = "idle"
    /\ nsub < MaxRecords
    /\ nsub' = nsub + 1
    /\ IF Len(appendCh) < APPEND_CHANNEL_SIZE
       THEN /\ Send(Rec(p, nsub + 1, RecLen(p), FALSE))
            /\ returned' = returned \cup {Rec(p, nsub + 1, RecLen(p), FALSE)}
       ELSE UNCHANGED <<appendCh, enq, returned>>
    /\ UNCHANGED <<appender, listenerVars, newpc, ppc, pcur, closerVars, fsVars>>

\* Append, lines 69-72: the non-blocking send, or the fall into the default case.
AppendCall(p) ==
    /\ newpc = "done"
    /\ ppc[p] = "idle"
    /\ nsub < MaxRecords
    /\ nsub' = nsub + 1
    /\ IF Len(appendCh) < APPEND_CHANNEL_SIZE
       THEN /\ Send(Rec(p, nsub + 1, RecLen(p), FALSE))
            /\ returned' = returned \cup {Rec(p, nsub + 1, RecLen(p), FALSE)}
            /\ UNCHANGED <<ppc, pcur>>
       ELSE /\ ppc' = [ppc EXCEPT ![p] = "warn"]
            /\ pcur' = [pcur EXCEPT ![p] = Rec(p, nsub + 1, RecLen(p), TRUE)]
            /\ UNCHANGED <<appendCh, enq, returned>>
    /\ UNCHANGED <<appender, listenerVars, newpc, closerVars, fsVars>>

\* Append, line 74: self.appendCh <- fullWarningLog(), blocking while full.
AppendWarn(p) ==
    /\ ppc[p] = "warn"
    /\ Len(appendCh) < APPEND_CHANNEL_SIZE
    /\ Send(fullWarningLog(p, pcur[p].k))
    /\ ppc' = [ppc EXCEPT ![p] = "log"]
    /\ UNCHANGED <<appender, listenerVars, newpc, pcur, nsub, returned, closerVars,
                   fsVars>>

\* Append, lines 75-77: self.appendCh <- log, blocking while full; return nil.
AppendLog(p) ==
    /\ ppc[p] = "log"
    /\ Len(appendCh) < APPEND_CHANNEL_SIZE
    /\ Send(pcur[p])
    /\ returned' = returned \cup {pcur[p]}
    /\ ppc' = [ppc EXCEPT ![p] = "idle"]
    /\ pcur' = [pcur EXCEPT ![p] = NoItem]
    /\ UNCHANGED <<appender, listenerVars, newpc, nsub, closerVars, fsVars>>

\* A writer that takes the record sent last instead of the one sent first.
ListenerAppendLast ==
    /\ lpc = "select"
    /\ appendCh # <<>>
    /\ \E io \in IO :
          LET r == reallyAppend(lself, World, appendCh[Len(appendCh)], TRUE, "writer", io)
          IN /\ lself' = ValueReceiver(lself, r.self)
             /\ Apply(r.w)
    /\ appendCh' = SubSeq(appendCh, 1, Len(appendCh) - 1)
    /\ needsSync' = TRUE
    /\ UNCHANGED <<appender, lpc, replyTo, replyVal, newpc, producerVars, closerVars,
                   enq>>

\* listenForAppends, lines 143-144 and 151-153: receive a log and reallyAppend it.
ListenerAppend ==
    /\ lpc = "select"
    /\ appendCh # <<>>
    /\ \E io \in IO :
          LET r == reallyAppend(lself, World, Head(appendCh), TRUE, "writer", io)
          IN /\ lself' = ValueReceiver(lself, r.self)
             /\ Apply(r.w)
    /\ appendCh' = Tail(appendCh)
    /\ needsSync' = TRUE
    /\ UNCHANGED <<appender, lpc, replyTo, replyVal, newpc, producerVars, closerVars,
                   enq>>

\* A writer that rotates the file whenever it finds the queue idle.
ListenerSyncRotating ==
    /\ lpc = "select"
    /\ needsSync
    /\ appendCh = <<>>
    /\ needsSync' = FALSE
    /\ \E io \in IO : Apply(rotate(lself, World, "writer", io).w)
    /\ UNCHANGED <<appender, lself, lpc, replyTo, replyVal, appendCh, newpc,
                   producerVars, closerVars, enq>>

\* listenForAppends, lines 145-147: nothing to receive, so self.file.Sync()
\* (its error is dropped) and go clean.
ListenerSync ==
    /\ lpc = "select"
    /\ needsSync
    /\ appendCh = <<>>
    /\ needsSync' = FALSE
    /\ \E fail \in BOOLEAN : Apply(FileSync(World, lself.file, fail).w)
    /\ UNCHANGED <<appender, lself, lpc, replyTo, replyVal, appendCh, newpc,
                   producerVars, closerVars, enq>>

\* listenForAppends, lines 154-155, with the closer's send on syncCh (246, 248):
\* the request is received and the reply value computed.
ListenerRecvSync(c) ==
    /\ lpc = "select"
    /\ ~needsSync
    /\ cpc[c] = "sendSync"
    /\ cpc' = [cpc EXCEPT ![c] = "recvReply"]
    /\ lpc' = "reply"
    /\ replyTo' = c
    /\ replyVal' = (Len(appendCh) <= 0)
    /\ UNCHANGED <<appender, lself, needsSync, appendCh, newpc, producerVars, cres,
                   snap, fsVars, enq>>

\* A writer that leaves its loop once it has reported the queue empty.
ListenerReplyThenReturn ==
    /\ lpc = "reply"
    /\ cpc[replyTo] = "recvReply"
    /\ cpc' = [cpc EXCEPT ![replyTo] = IF replyVal THEN "close" ELSE "sendSync"]
    /\ lpc' = IF replyVal THEN "returned" ELSE "select"
    /\ replyTo' = NIL
    /\ replyVal' = FALSE
    /\ UNCHANGED <<appender, lself, needsSync, appendCh, newpc, producerVars, cres,
                   snap, fsVars, enq>>

\* A waitUntilEmpty that, told 'not empty', waits for another reply without
\* sending its request again.
ListenerReplyWithoutResend ==
    /\ lpc = "reply"
    /\ cpc[replyTo] = "recvReply"
    /\ cpc' = [cpc EXCEPT ![replyTo] = IF replyVal THEN "close" ELSE "recvReply"]
    /\ lpc' = "select"
    /\ replyTo' = NIL
    /\ replyVal' = FALSE
    /\ UNCHANGED <<appender, lself, needsSync, appendCh, newpc, producerVars, cres,
                   snap, fsVars, enq>>

\* The send on syncReplyCh (155) with the closer's receive (247).
ListenerReply ==
    /\ lpc = "reply"
    /\ cpc[replyTo] = "recvReply"
    /\ cpc' = [cpc EXCEPT ![replyTo] = IF replyVal THEN "close" ELSE "sendSync"]
    /\ lpc' = "select"
    /\ replyTo' = NIL
    /\ replyVal' = FALSE
    /\ UNCHANGED <<appender, lself, needsSync, appendCh, newpc, producerVars, cres,
                   snap, fsVars, enq>>

\* Close is called: waitUntilEmpty makes its reply channel (245).
CloseCall(c) ==
    /\ newpc = "done"
    /\ cpc[c] = "idle"
    /\ c > 1 => cpc[c - 1] = "returned"
    /\ cpc' = [cpc EXCEPT ![c] = "sendSync"]
    /\ snap' = [snap EXCEPT ![c] = returned]
    /\ UNCHANGED <<appender, listenerVars, appendCh, newpc, producerVars, cres, fsVars,
                   enq>>

\* Close, line 82: return self.file.Close(), on the caller's copy of the struct.
CloseFile(c) ==
    /\ cpc[c] = "close"
    /\ \E fail \in BOOLEAN :
          LET cl == FileClose(World, appender.file, fail)
          IN /\ Apply(cl.w)
             /\ cres' = [cres EXCEPT ![c] = IF cl.err THEN "err" ELSE "ok"]
    /\ cpc' = [cpc EXCEPT ![c] = "returned"]
    /\ snap' = [snap EXCEPT ![c] = {}]
    /\ UNCHANGED <<appender, listenerVars, appendCh, newpc, producerVars, enq>>

Next ==
    \/ NewLogHeader
    \/ \E p \in Producers : AppendCall(p)
    \/ \E p \in Producers : AppendWarn(p)
    \/ \E p \in Producers : AppendLog(p)
    \/ ListenerAppend
    \/ ListenerSync
    \/ \E c \in Closers : ListenerRecvSync(c)
    \/ ListenerReply
    \/ \E c \in Closers : CloseCall(c)
    \/ \E c \in Closers : CloseFile(c)

Spec == Init /\ [][Next]_vars

\* ------------------------------------------------------------ observations
RECURSIVE SumLen(_)
SumLen(seq) == IF seq = <<>> THEN 0 ELSE Head(seq).len + SumLen(Tail(seq))

Tracked(item) == item.kind \in {"rec", "warn"}

\* The files of this appender: the one at absPath and the rotated ones.
Files == ({active} \cup {rotated[t] : t \in Stamps}) \ {NIL}

InFile(item, ino) == \E j \in 1..Len(inodes[ino]) : inodes[ino][j] = item

InFiles(item) == \E ino \in Files : InFile(item, ino)

\* Bytes in the file at absPath that count towards rotation: what New found
\* there and the records written to it.
ActiveTrackedBytes ==
    SumLen(SelectSeq(inodes[active], LAMBDA it : Tracked(it) \/ it.kind = "pre"))

WriterWrites == {i \in 1..Len(trace) : trace[i].ev = "write" /\ trace[i].th = "writer"}
Rotations == {i \in 1..Len(trace) : trace[i].ev = "rotate"}

ErrorsOfKind(kind) == {i \in 1..Len(errors) : errors[i].kind = kind}

\* ------------------------------------------------------------------ claims

\* C1 (as claimed): delivery completeness.  When a call of Close returns, every
\* record whose Append had returned before that call is in a file of the
\* appender (the active file or a rotated one), rotations or not; the
\* environment has made no I/O call fail.
C1_DeliveryCompleteness ==
    [][\A c \in Closers :
          (cpc[c] = "close" /\ cpc'[c] = "returned" /\ nfs' = 0)
              => \A r \in snap[c] : InFiles(r)']_vars

\* C2 (as claimed): single-writer confinement.  Only the writer goroutine has
\* written to a file handle, and no caller of Close has closed one.
C2_SingleWriter ==
    /\ \A i \in 1..Len(trace) :
          (trace[i].ev = "write" /\ trace[i].h # NIL) => trace[i].th = "writer"
    /\ \A c \in Closers : cpc[c] # "returned"

\* C3 (as claimed): rotation threshold.  Between two steps of the writer, the
\* file at absPath never holds tracked writes that bring it above maxFileSize
\* (the write that crossed the threshold has rotated it away), and after a
\* rotation the writer's size counter restarts from 0; the environment has
\* made no I/O call fail.
C3_RotationThreshold ==
    (nfs = 0 /\ active # NIL) =>
        /\ (\E j \in 1..Len(inodes[active]) : Tracked(inodes[active][j]))
              => ActiveTrackedBytes <= appender.MaxFileSize
        /\ (Rotations # {} /\ trace[Len(trace)].ev # "write")
              => lself.curFileSize = 0

\* C4 (as claimed): after Close has returned, the writer refuses every record
\* with NoFile and attempts no write on the closed handle.
C4_NoFileAfterClose ==
    \A i \in WriterWrites : trace[i].closed => trace[i].out = "nofile"

\* C5 (as claimed): rename-failure resilience.  After a rotation whose rename
\* failed and whose reopen succeeded, a RenameFailure has been reported and
\* every record the writer takes afterwards (before any Close) is written to
\* the file at absPath, which still holds what it held.
C5_RenameFailureResilience ==
    \A i \in Rotations : trace[i].out = "reopened" =>
        /\ ErrorsOfKind("Rename") # {}
        /\ \A j \in WriterWrites :
              (j > i /\ ~trace[j].closed) =>
                  /\ trace[j].out = "written"
                  /\ active # NIL /\ InFile(trace[j].item, active)
        /\ \A j \in WriterWrites :
              (j < i /\ trace[j].out = "written") => InFiles(trace[j].item)

\* C6 (as claimed): no-file degradation.  After a rotation that left the handle
\* null (rename and reopen failed, or the create failed), every record the
\* writer takes is dropped without a write attempt and with exactly one NoFile
\* error each.
C6_NoFileDegradation ==
    \A i \in Rotations : trace[i].out \in {"nofile", "createfailed"} =>
        /\ \A j \in WriterWrites : j > i => trace[j].out = "nofile"
        /\ Cardinality(ErrorsOfKind("NoFile"))
              = Cardinality({j \in WriterWrites : j > i})

\* The items the writer took from appendCh, in the order it took them.
WriterItems ==
    LET sel == SelectSeq(trace, LAMBDA e : e.ev = "write" /\ e.th = "writer"
                                            /\ Tracked(e.item))
    IN [i \in 1..Len(sel) |-> sel[i].item]

WarningsFor(p, k) ==
    {j \in 1..Len(enq) : enq[j].kind = "warn" /\ enq[j].p = p /\ enq[j].k = k}

\* C7 (as claimed): overflow signaling.  An Append that found the queue full
\* sends exactly one warning, after at least APPEND_CHANNEL_SIZE earlier items
\* and ahead of its own record, with nothing of the same producer in between;
\* an Append that found room sends none; the writer takes the items in that
\* order.  And the output holds them: once the writer has taken the record of
\* an overflowing Append (no I/O call has failed, no Close has returned), the
\* warning and the record are in the appender's files, the warning first.
C7_OverflowSignaling ==
    /\ \A i \in 1..Len(enq) : enq[i].kind = "rec" =>
          LET ws == WarningsFor(enq[i].p, enq[i].k) IN
          IF enq[i].ovf
          THEN \E j \in ws :
                  /\ ws = {j}
                  /\ APPEND_CHANNEL_SIZE < j /\ j < i
                  /\ \A m \in (j + 1)..(i - 1) : enq[m].p # enq[i].p
          ELSE ws = {}
    /\ \A p \in Producers :
          ppc[p] = "warn" => pcur[p].ovf /\ WarningsFor(p, pcur[p].k) = {}
    /\ Len(WriterItems) + Len(appendCh) = Len(enq)
    /\ \A i \in 1..Len(WriterItems) : WriterItems[i] = enq[i]
    /\ (nfs = 0 /\ ~SomeCloseReturned) =>
          \A i \in 1..Len(WriterItems) : WriterItems[i].ovf =>
              LET r == WriterItems[i]
                  w == fullWarningLog(r.p, r.k)
              IN /\ InFiles(w)
                 /\ InFiles(r)
                 /\ \A ino \in Files : \A a, b \in 1..Len(inodes[ino]) :
                       (inodes[ino][a] = w /\ inodes[ino][b] = r) => a < b

\* The file a handle was opened on.
Fresh(i) == inodes[handles[trace[i].h].inode]

\* C8: header persistence.  With a header generator, the first write the
\* appender attempts is the header on the initial file, made before any record
\* can be submitted, and the first write attempted after a successful rotation
\* is the header on the fresh file.  Unless the system fails a header write,
\* what the appender itself has written to the initial file starts with the
\* header and every file created by a successful rotation starts with it.
C8_HeaderPersistence ==
    appender.headerGenerator # NIL =>
        /\ enq # <<>> => newpc = "done"
        /\ newpc = "done" =>
              /\ trace # <<>>
              /\ trace[1].ev = "write" /\ trace[1].item.kind = "header"
              /\ trace[1].h = 1
        /\ \A i \in Rotations : trace[i].out = "ok" =>
              /\ i < Len(trace)
              /\ trace[i + 1].ev = "write" /\ trace[i + 1].item.kind = "header"
              /\ trace[i + 1].h = trace[i].h
        /\ "hwrite" \notin faults =>
              /\ LET own == SelectSeq(inodes[1], LAMBDA it : it.kind # "pre")
                 IN /\ own # <<>> => Head(own).kind = "header"
                    /\ (newpc = "done" /\ Rotations = {}) => own # <<>>
              /\ \A i \in Rotations : trace[i].out = "ok" =>
                    /\ Fresh(i) # <<>>
                    /\ Head(Fresh(i)).kind = "header"

\* C8's case: the initial file holds the header and then a record, a rotation
\* has succeeded and the fresh file holds the header.
C8_Witness ==
    /\ appender.headerGenerator # NIL
    /\ "hwrite" \notin faults
    /\ Len(inodes[1]) >= 2
    /\ \E i \in Rotations :
          /\ trace[i].out = "ok"
          /\ Fresh(i) = <<HeaderLog(appender.headerGenerator)>>
          /\ active = handles[trace[i].h].inode

\* C10 (as claimed): run-time failures reach the error sink only on the writer
\* goroutine.
C10_ErrorsOnlyOnWriter ==
    \A i \in 1..Len(errors) : errors[i].th = "writer"

\* The scheduling the liveness claims rest on: goroutines that can run do run,
\* and a select with several ready cases picks each of them again and again
\* (the runtime picks at random), so the writer does not answer drain requests
\* forever while a record waits in appendCh.
\* ListenerAppend as far as appendCh goes: the writer's receive on the channel.
Dequeue ==
    /\ lpc = "select"
    /\ appendCh # <<>>
    /\ appendCh' = Tail(appendCh)

\* The liveness claims are checked from the configurations in which both kinds
\* of write occur: on a file of size 1 with maxFileSize 2 a short record stays
\* below the threshold and a long one rotates the file.
FairInit ==
    /\ Init
    /\ appender.MaxFileSize = 2
    /\ appender.curFileSize = 1

FairSpec ==
    /\ FairInit
    /\ [][Next]_vars
    /\ SF_appendCh(Dequeue)
    /\ WF_vars(ListenerSync)
    /\ WF_vars(\E c \in Closers : ListenerRecvSync(c))
    /\ WF_vars(ListenerReply)
    /\ WF_vars(\E c \in Closers : CloseFile(c))

\* C9: idempotent Close.  No file handle is ever closed twice, a call of Close
\* made after an earlier call has returned gets the already-closed error of the
\* file, and it does return: once in waitUntilEmpty it reaches its return.
C9_IdempotentClose ==
    /\ [](\A h \in 1..Len(handles) : handles[h].closes <= 1)
    /\ [](\A c \in Closers : (c > 1 /\ cpc[c] = "returned") => cres[c] = "err")
    /\ \A c \in Closers \ {1} : (cpc[c] = "sendSync") ~> (cpc[c] = "returned")

\* C9's case: a second call of Close has returned, after the first one closed
\* the file.
C9_Witness ==
    /\ cpc[1] = "returned" /\ cres[1] = "ok"
    /\ cpc[2] = "returned" /\ cres[2] = "err"
    /\ handles[1].closes = 1

\* The calls of Append made so far, by number.
Called == 1..nsub

\* The record of call k has been sent on appendCh.
Enqueued(k) == \E i \in 1..Len(enq) : enq[i].kind = "rec" /\ enq[i].k = k

\* The record of call k is held by a producer that is still inside Append.
Held(k) == \E p \in Producers : ppc[p] # "idle" /\ pcur[p].k = k

\* C11: backpressure.  appendCh never holds more than its capacity; the record
\* of every call of Append is in the producer's hands or has been enqueued; a
\* producer inside Append can go on whenever the queue has room; and a call
\* that finds room enqueues its record and returns in that very step.
C11_Backpressure ==
    /\ [](Len(appendCh) <= APPEND_CHANNEL_SIZE)
    /\ [](\A k \in Called : Enqueued(k) \/ Held(k))
    /\ [](\A p \in Producers : Len(appendCh) < APPEND_CHANNEL_SIZE =>
             /\ ppc[p] = "warn" => ENABLED AppendWarn(p)
             /\ ppc[p] = "log" => ENABLED AppendLog(p))
    /\ [][(nsub' = nsub + 1 /\ Len(appendCh) < APPEND_CHANNEL_SIZE) =>
             \E p \in Producers :
                /\ ppc[p] = "idle" /\ ppc' = ppc
                /\ appendCh' = Append(appendCh, Rec(p, nsub', RecLen(p), FALSE))
                /\ Rec(p, nsub', RecLen(p), FALSE) \in returned']_vars

\* C11's case: the queue is full, a producer that found it full has got its
\* record in after waiting, and another call has gone through without waiting.
C11_Witness ==
    /\ Len(appendCh) = APPEND_CHANNEL_SIZE
    /\ \E i, j \in 1..Len(enq) :
          /\ enq[i].kind = "rec" /\ enq[i].ovf
          /\ enq[j].kind = "rec" /\ ~enq[j].ovf

\* The rotations that set the size counter to 0: the rename succeeded (line
\* 214), or the rename and the reopen both failed (line 208).
Resets == {i \in Rotations : trace[i].out \in {"ok", "createfailed", "nofile"}}

LastReset == IF Resets = {} THEN 0 ELSE CHOOSE i \in Resets : \A j \in Resets : j <= i

\* The successful tracked writes of the writer since the last reset.
TrackedSinceReset ==
    SelectSeq(SubSeq(trace, LastReset + 1, Len(trace)),
              LAMBDA e : /\ e.ev = "write" /\ e.th = "writer"
                         /\ e.out = "written" /\ Tracked(e.item))

RECURSIVE SumWritten(_)
SumWritten(evs) == IF evs = <<>> THEN 0 ELSE Head(evs).item.len + SumWritten(Tail(evs))

\* C12 (as claimed): size-counter invariant.  Between two steps of the writer
\* its size counter is the size New read from the file (0 once a rotation has
\* reset it) plus the lengths of the records it has written successfully
\* since; header writes are not counted.  The environment has made no I/O call
\* fail.
C12_SizeCounter ==
    nfs = 0 =>
        lself.curFileSize =
            (IF LastReset = 0 THEN appender.curFileSize ELSE 0)
                + SumWritten(TrackedSinceReset)

\* The record writes of the writer that follow trace event i with no rotation
\* in between.
RecordWritesAfter(i) ==
    {j \in WriterWrites : /\ j > i /\ Tracked(trace[j].item)
                          /\ \A k \in Rotations : ~(i < k /\ k < j)}

\* C13 (as claimed): after a rotation whose rename and create succeeded the
\* writer works on the new handle.  The header, if any, is the next thing
\* written and goes to the fresh file; until the writer writes again its
\* handle is the new one and its size counter is 0; every record it writes
\* before the next rotation (and before any Close) goes to the new handle and
\* is written.  The environment has made no I/O call fail.
C13_PostRotationHandle ==
    nfs = 0 =>
        \A i \in Rotations : trace[i].out = "ok" =>
            /\ appender.headerGenerator # NIL =>
                  /\ i < Len(trace)
                  /\ trace[i + 1].item.kind = "header" /\ trace[i + 1].h = trace[i].h
                  /\ trace[i + 1].out = "written"
            /\ (\A k \in Rotations : k <= i) /\ RecordWritesAfter(i) = {} =>
                  /\ lself.file = trace[i].h
                  /\ lself.curFileSize = 0
            /\ \A j \in RecordWritesAfter(i) : ~trace[j].closed =>
                  /\ trace[j].h = trace[i].h
                  /\ trace[j].out = "written"

\* The rotation resets that precede trace event i.
ResetsBefore(i) == {k \in Resets : k < i}

\* The size counter as the records written add up, just before trace event i:
\* the size New read (0 after a reset) plus the successful tracked writes of
\* the writer since.
CountedBefore(i) ==
    LET from == IF ResetsBefore(i) = {} THEN 0
                ELSE CHOOSE k \in ResetsBefore(i) : \A m \in ResetsBefore(i) : m <= k
    IN (IF from = 0 THEN appender.curFileSize ELSE 0)
       + SumWritten(SelectSeq(SubSeq(trace, from + 1, i - 1),
                              LAMBDA e : /\ e.ev = "write" /\ e.th = "writer"
                                         /\ e.out = "written" /\ Tracked(e.item)))

\* C14: rotation is never preemptive.  Every rotation follows at once a
\* successful tracked write of the writer, after which the value reallyAppend
\* tests and the bytes counted so far both exceed maxFileSize; and a rotation
\* is made only in a step of the writer that takes a record from appendCh,
\* never by New, on a sync, on a drain request or its reply, or by Close.
C14_NoPreemptiveRotation ==
    /\ [](\A i \in Rotations :
             /\ i > 1
             /\ trace[i - 1].ev = "write" /\ trace[i - 1].th = "writer"
             /\ trace[i - 1].out = "written" /\ Tracked(trace[i - 1].item)
             /\ trace[i].th = "writer"
             /\ lself.curFileSize + trace[i - 1].item.len > lself.MaxFileSize
             /\ CountedBefore(i) > lself.MaxFileSize)
    /\ [][Len(trace') > Len(trace) /\ trace'[Len(trace')].ev = "rotate" =>
             /\ lpc = "select" /\ appendCh # <<>>
             /\ appendCh' = Tail(appendCh)
             /\ trace'[Len(trace) + 1].item = Head(appendCh)]_vars

\* C14's case: a record was written and left the file below the threshold, a
\* later one crossed it and the file was rotated, a write failed after that,
\* and Close has returned; there is exactly the one rotation.
C14_Witness ==
    /\ \E i \in Rotations :
          /\ Rotations = {i}
          /\ \E j \in WriterWrites : j < i - 1 /\ trace[j].out = "written"
    /\ \E j \in WriterWrites : trace[j].out = "writeerr"
    /\ SomeCloseReturned

\* The copies of the struct a header write can be made on: the one New holds,
\* the one the writer holds, and the writer's with any handle opened so far.
HeaderSelves ==
    {appender, lself} \cup {[lself EXCEPT !.file = h] : h \in 1..Len(handles)}

\* What one step has added to the trace.
Added == SubSeq(trace', Len(trace) + 1, Len(trace'))

\* C15: a header write never triggers a rotation and leaves the size counter
\* as it was, also for a header longer than maxFileSize: the write path run
\* for a header gives back the counter unchanged and records the write and
\* nothing else; no rotation follows a header write; and one step makes at
\* most one rotation and emits at most one header, which is the last thing
\* it does.
C15_HeaderNeverRotates ==
    /\ [](appender.headerGenerator # NIL =>
             \A self \in HeaderSelves : \A io \in IO :
                LET r == reallyAppend(self, World, HeaderLog(self.headerGenerator),
                                      FALSE, "writer", io)
                IN /\ r.self.curFileSize = self.curFileSize
                   /\ Len(r.w.trace) = Len(trace) + 1
                   /\ r.w.trace[Len(trace) + 1].ev = "write")
    /\ [](\A i \in Rotations : i > 1 /\ trace[i - 1].item.kind # "header")
    /\ [][/\ Cardinality({i \in 1..Len(Added) : Added[i].ev = "rotate"}) <= 1
          /\ Cardinality({i \in 1..Len(Added) : Added[i].item.kind = "header"}) <= 1
          /\ \A i \in 1..Len(Added) : Added[i].item.kind = "header" => i = Len(Added)
          /\ (Added # <<>> /\ Added[Len(Added)].item.kind = "header") =>
                lself'.curFileSize = lself.curFileSize]_vars

\* C15's case: a header longer than maxFileSize has been written by New and
\* again by the one rotation there has been, which ended with it.
C15_Witness ==
    /\ appender.headerGenerator # NIL
    /\ appender.headerGenerator > appender.MaxFileSize
    /\ trace # <<>>
    /\ trace[1].item.kind = "header" /\ trace[1].out = "written"
    /\ \E i \in Rotations :
          /\ Rotations = {i}
          /\ trace[i].out = "ok"
          /\ Len(trace) > i + 1
          /\ trace[i + 1].item.kind = "header" /\ trace[i + 1].out = "written"

\* The successful writes of the writer, rotation headers included.
WriterWritten == {i \in WriterWrites : trace[i].out = "written"}

\* What trace event i wrote is in the durable contents of the file it went to.
Durable(i) ==
    LET ino == handles[trace[i].h].inode
    IN \E j \in 1..Len(synced[ino]) : synced[ino][j] = trace[i].item

\* C16 (as claimed): drain reply soundness.  The writer takes a drain request
\* only when clean, and when the answer it computes is 'empty' the queue is
\* empty at that moment, everything sent on appendCh so far has been through
\* its write attempt, and the last thing the writer wrote has been made
\* durable by a Sync after it.  The environment has made no I/O call fail.
C16_DrainReplySoundness ==
    [][(lpc = "select" /\ lpc' = "reply") =>
          /\ ~needsSync
          /\ (replyVal' /\ nfs = 0) =>
                /\ appendCh = <<>>
                /\ WriterItems = enq
                /\ \A i \in WriterWritten :
                      (\A j \in WriterWritten : j <= i) => Durable(i)]_vars

\* Close is called by a thread of its own, whatever other calls of Close are
\* doing: waitUntilEmpty makes its reply channel (245).
CloseCallConcurrent(c) ==
    /\ newpc = "done"
    /\ cpc[c] = "idle"
    /\ cpc' = [cpc EXCEPT ![c] = "sendSync"]
    /\ UNCHANGED <<appender, listenerVars, appendCh, newpc, producerVars, cres, snap,
                   fsVars, enq>>

ConcNext ==
    \/ NewLogHeader
    \/ \E p \in Producers : AppendCall(p)
    \/ \E p \in Producers : AppendWarn(p)
    \/ \E p \in Producers : AppendLog(p)
    \/ ListenerAppend
    \/ ListenerSync
    \/ \E c \in Closers : ListenerRecvSync(c)
    \/ ListenerReply
    \/ \E c \in Closers : CloseCallConcurrent(c)
    \/ \E c \in Closers : CloseFile(c)

\* Producers stop calling Append (at most MaxRecords calls are made), the
\* writer and the closers are scheduled fairly, and Close may be called by
\* several threads at once.
ConcFairSpec ==
    /\ FairInit
    /\ [][ConcNext]_vars
    /\ SF_appendCh(Dequeue)
    /\ WF_vars(ListenerSync)
    /\ WF_vars(\E c \in Closers : ListenerRecvSync(c))
    /\ WF_vars(ListenerReply)
    /\ WF_vars(\E c \in Closers : CloseFile(c))

\* C17: Close terminates.  Every call of Close that has entered waitUntilEmpty
\* gets an 'empty' reply in the end and returns, whatever the other callers of
\* Close are doing; a caller waiting for its reply is never left without one.
C17_CloseTerminates ==
    /\ \A c \in Closers : (cpc[c] = "sendSync") ~> (cpc[c] = "close")
    /\ \A c \in Closers : (cpc[c] = "sendSync") ~> (cpc[c] = "returned")
    /\ \A c \in Closers : (cpc[c] = "recvReply") ~> (cpc[c] # "recvReply")

\* C17's case: two calls of Close are in progress together; one has been told
\* 'empty' and is about to close the file, the other is being told 'not empty'
\* and will have to ask again.
C17_Witness ==
    /\ cpc[1] = "close"
    /\ cpc[2] = "recvReply"
    /\ lpc = "reply" /\ replyTo = 2 /\ ~replyVal

\* Capacities of appendCh under which several records wait in it together.
Capacities == {QueueCap, QueueCap + 1}

\* New on a file of size 1 with maxFileSize 2: a short record stays below the
\* threshold, a long one rotates the file.
FifoInit ==
    /\ NewWith(Capacities)
    /\ appender.MaxFileSize = 2
    /\ appender.curFileSize = 1

FifoSpec == FifoInit /\ [][Next]_vars

\* Positions a, b of one file hold records of one producer in submission order.
InOrder(content) ==
    \A a, b \in 1..Len(content) :
        (/\ a < b /\ content[a].kind = "rec" /\ content[b].kind = "rec"
         /\ content[a].p = content[b].p) => content[a].k < content[b].k

\* C18: FIFO ordering.  What the writer has attempted to write is, item for
\* item, the beginning of what was sent on appendCh, and what waits in appendCh
\* is the rest in the same order; the records of one producer are sent, and so
\* attempted, in the order of its calls; in every file they stand in that
\* order, and none stands in the file at absPath while a later one of the same
\* producer stands in a rotated file.
C18_FifoOrdering ==
    /\ Len(WriterItems) + Len(appendCh) = Len(enq)
    /\ \A i \in 1..Len(WriterItems) : WriterItems[i] = enq[i]
    /\ \A i \in 1..Len(appendCh) : appendCh[i] = enq[Len(WriterItems) + i]
    /\ InOrder(enq)
    /\ InOrder(WriterItems)
    /\ \A ino \in 1..Len(inodes) : InOrder(inodes[ino])
    /\ \A t \in Stamps : (rotated[t] # NIL /\ active # NIL) =>
          \A a \in 1..Len(inodes[active]) : \A b \in 1..Len(inodes[rotated[t]]) :
             LET x == inodes[active][a]  y == inodes[rotated[t]][b]
             IN (x.kind = "rec" /\ y.kind = "rec" /\ x.p = y.p) => y.k < x.k

\* C18's case: two records of one producer waited in appendCh together, the
\* writer has attempted both, and the first of them rotated the file.
C18_Witness ==
    /\ APPEND_CHANNEL_SIZE > 1
    /\ Len(WriterItems) = 2
    /\ WriterItems[1].p = WriterItems[2].p
    /\ WriterItems[1].kind = "rec" /\ WriterItems[2].kind = "rec"
    /\ Len(trace) >= 3
    /\ trace[1].out = "written" /\ trace[2].ev = "rotate" /\ trace[3].ev = "write"
    /\ needsSync /\ nfs = 0

\* The calls of errHandler one step has made.
AddedErrors == SubSeq(errors', Len(errors) + 1, Len(errors'))

NumErrors(kind) == Cardinality({i \in 1..Len(AddedErrors) : AddedErrors[i].kind = kind})

NumEvents(ev, outs) ==
    Cardinality({i \in 1..Len(Added) : Added[i].ev = ev /\ Added[i].out \in outs})

\* Every item sent on appendCh so far has been through its write attempt.
AllAttempted == Len(WriterItems) = Len(enq)

\* C19: failures are reported once each and stop nothing.  In every step the
\* calls of errHandler match the failures of the step one for one: a write
\* error per failed write, NoFile per write refused for want of a file, a
\* rename error per failed rename, an open error per failed reopen or create,
\* and one close error when the close in a rotation fails, after which the
\* rotation still runs to its outcome.  A write on a nil handle reports NoFile
\* once and does nothing else.  Whatever has failed, the writer gets every
\* item sent to it through its write attempt and takes every drain request.
C19_FailuresReportedOnce ==
    /\ [][/\ NumErrors("Write") = NumEvents("write", {"writeerr"})
          /\ NumErrors("NoFile") = NumEvents("write", {"nofile"})
          /\ NumErrors("Rename") = NumEvents("rotate", {"reopened", "nofile"})
          /\ NumErrors("Open") = NumEvents("rotate", {"nofile", "createfailed"})
          /\ NumErrors("Close") <= 1
          /\ NumErrors("Close") = 1 =>
                NumEvents("rotate", {"reopened", "nofile", "createfailed", "ok"}) = 1
          /\ (/\ "close" \notin faults /\ "close" \in faults'
              /\ Len(trace') > Len(trace)) =>
                /\ NumErrors("Close") = 1
                /\ NumEvents("rotate", {"reopened", "nofile", "createfailed", "ok"}) = 1
          /\ Len(AddedErrors) = NumErrors("Write") + NumErrors("NoFile")
                + NumErrors("Rename") + NumErrors("Open") + NumErrors("Close")]_vars
    /\ [](\A io \in IO : \A p \in Producers :
             LET r == reallyAppend([lself EXCEPT !.file = NIL], World,
                                   Rec(p, 1, RecLen(p), FALSE), TRUE, "writer", io)
             IN /\ r.w.errors = Append(errors, [kind |-> "NoFile", th |-> "writer"])
                /\ r.w.inodes = inodes /\ r.w.handles = handles
                /\ Len(r.w.trace) = Len(trace) + 1)
    /\ [](errors # <<>> => <>AllAttempted)
    /\ \A c \in Closers : (errors # <<>> /\ cpc[c] = "sendSync") ~> (cpc[c] = "recvReply")

\* C19's case: a rotation whose close and rename failed has reported both
\* and reopened the file, the write after it has failed and been reported,
\* and the writer has gone on to take a drain request.
C19_Witness ==
    /\ ErrorsOfKind("Close") # {} /\ ErrorsOfKind("Rename") # {}
    /\ ErrorsOfKind("Write") # {}
    /\ Len(errors) = 3
    /\ \E c \in Closers : cpc[c] = "recvReply"
    /\ AllAttempted

\* ------------------------------------------------- appendCh without a buffer
\* make(chan *slogger.Log, 0): a send completes only in a rendezvous with the
\* writer's receive, and nothing is ever held in the channel.  New on a file
\* of size 1 with maxFileSize 2, as in FairInit.
ZeroInit ==
    /\ NewWith({0})
    /\ appender.MaxFileSize = 2
    /\ appender.curFileSize = 1

\* A send that completes only once the queue has room for the item.
ParkedUntilRoom(p) == ppc[p] \in {"warn", "log"} /\ Len(appendCh) < APPEND_CHANNEL_SIZE

\* Producer p is in a blocking send on appendCh (line 74 or 75): a receive by
\* the writer finds it ready.
Parked(p) == ppc[p] \in {"warn", "log"}

\* What p's blocking send is sending.
Sending(p) == IF ppc[p] = "warn" THEN fullWarningLog(p, pcur[p].k) ELSE pcur[p]

\* Append, lines 69-72, on the unbuffered channel: the non-blocking send goes
\* through only if the writer is waiting in its blocking select (lines 150-156)
\* and then hands the record to it; otherwise Append falls into the default
\* case.  A writer that is about to wait is not waiting yet, so the default
\* case can always be taken.
ZeroAppendCall(p) ==
    /\ newpc = "done"
    /\ ppc[p] = "idle"
    /\ nsub < MaxRecords
    /\ nsub' = nsub + 1
    /\ \/ /\ lpc = "select" /\ ~needsSync
          /\ \E io \in IO :
                LET r == reallyAppend(lself, World, Rec(p, nsub + 1, RecLen(p), FALSE),
                                      TRUE, "writer", io)
                IN /\ lself' = ValueReceiver(lself, r.self)
                   /\ Apply(r.w)
          /\ needsSync' = TRUE
          /\ enq' = Append(enq, Rec(p, nsub + 1, RecLen(p), FALSE))
          /\ returned' = returned \cup {Rec(p, nsub + 1, RecLen(p), FALSE)}
          /\ UNCHANGED <<ppc, pcur>>
       \/ /\ ppc' = [ppc EXCEPT ![p] = "warn"]
          /\ pcur' = [pcur EXCEPT ![p] = Rec(p, nsub + 1, RecLen(p), TRUE)]
          /\ UNCHANGED <<lself, needsSync, enq, returned, fsVars>>
    /\ UNCHANGED <<appender, lpc, replyTo, replyVal, appendCh, newpc, closerVars>>

\* listenForAppends, lines 143-144 and 151-153, with the producer's blocking
\* send (74, 75): the writer receives what p is sending and reallyAppends it;
\* p goes on to its next send or returns from Append.
ZeroRecv(p) ==
    /\ lpc = "select"
    /\ Parked(p)
    /\ \E io \in IO :
          LET r == reallyAppend(lself, World, Sending(p), TRUE, "writer", io)
          IN /\ lself' = ValueReceiver(lself, r.self)
             /\ Apply(r.w)
    /\ needsSync' = TRUE
    /\ enq' = Append(enq, Sending(p))
    /\ IF ppc[p] = "warn"
       THEN /\ ppc' = [ppc EXCEPT ![p] = "log"]
            /\ UNCHANGED <<pcur, returned>>
       ELSE /\ ppc' = [ppc EXCEPT ![p] = "idle"]
            /\ pcur' = [pcur EXCEPT ![p] = NoItem]
            /\ returned' = returned \cup {pcur[p]}
    /\ UNCHANGED <<appender, lpc, replyTo, replyVal, appendCh, newpc, nsub, closerVars>>

\* listenForAppends, lines 145-147, on the unbuffered channel: the select finds
\* no sender ready (one that is about to send is not ready yet), so Sync and
\* go clean.
ZeroSync ==
    /\ lpc = "select"
    /\ needsSync
    /\ needsSync' = FALSE
    /\ \E fail \in BOOLEAN : Apply(FileSync(World, lself.file, fail).w)
    /\ UNCHANGED <<appender, lself, lpc, replyTo, replyVal, appendCh, newpc,
                   producerVars, closerVars, enq>>

ZeroNext ==
    \/ NewLogHeader
    \/ \E p \in Producers : ZeroAppendCall(p)
    \/ \E p \in Producers : ZeroRecv(p)
    \/ ZeroSync
    \/ \E c \in Closers : ListenerRecvSync(c)
    \/ ListenerReply
    \/ \E c \in Closers : CloseCall(c)
    \/ \E c \in Closers : CloseFile(c)

\* ZeroRecv as far as enq goes: the writer's receive from a sender that waits.
ZeroTake ==
    /\ lpc = "select"
    /\ \E p \in Producers : Parked(p) /\ enq' = Append(enq, Sending(p))

\* The writer and the closers are scheduled fairly, and a select that finds a
\* sender waiting on appendCh again and again takes it in the end.
ZeroFairSpec ==
    /\ ZeroInit
    /\ [][ZeroNext]_vars
    /\ SF_enq(ZeroTake)
    /\ WF_vars(ZeroSync)
    /\ WF_vars(\E c \in Closers : ListenerRecvSync(c))
    /\ WF_vars(ListenerReply)
    /\ WF_vars(\E c \in Closers : CloseFile(c))

====
